---- MODULE Spec2Model ----
(***************************************************************************)
(* A model of the PASS_NICE verification session (pass_nice/PASS_NICE.py). *)
(*                                                                         *)
(* The session object's attributes are the variables.  Every public        *)
(* coroutine is one action: the caller serialises calls, so a call runs    *)
(* from its first statement to its return or raise without interleaving.   *)
(* The provider's answers (transport failure, page contents, JSON body)    *)
(* are chosen nondeterministically for every request a call issues.        *)
(*                                                                         *)
(* Text the code inspects character by character (birthdate, phone number, *)
(* CAPTCHA answer, SMS code) is a sequence of one-character strings.       *)
(* A provider page is a record giving, for each field the code scrapes,    *)
(* the set holding the first capture of its pattern: {} when the pattern   *)
(* does not match, {v} when it captures v.                                 *)
(*                                                                         *)
(* Spec is the session called directly, SpecScoped the session used with   *)
(* `async with`, SpecInput the private validator applied to bounded texts. *)
(***************************************************************************)
EXTENDS Integers, Sequences, FiniteSets, TLC

VARIABLES
    is_initialized,     \* self._is_initialized
    is_verify_sent,     \* self._is_verify_sent
    AUTH_TYPE,          \* self._AUTH_TYPE
    cell_corp,          \* self._cell_corp
    SERVICE_INFO,       \* self._SERVICE_INFO   (Absent until assigned)
    CERT_INFO_HASH,     \* self._CERT_INFO_HASH (Absent until assigned)
    CAPTCHA_VERSION,    \* self._CAPTCHA_VERSION (Absent until assigned)
    verification_data,  \* self._verification_data: {} until assigned, else {vd}
    wcCookie,           \* self.client.cookies holds a wcCookie
    client,             \* self.client: "open" until aclose() has run, then "closed"
    scope,              \* where the caller is with respect to an `async with` block on
                        \* the session: "none" (not used), "inside", "left"
    landing_url,        \* history, no attribute of the session: the URL of the landing
                        \* page the successful init_session fetched ("" before it)
    last                \* the most recent call: operation, arguments, outcome, requests,
                        \* what it saw of the provider, the session it started from

vars == <<is_initialized, is_verify_sent, AUTH_TYPE, cell_corp, SERVICE_INFO,
          CERT_INFO_HASH, CAPTCHA_VERSION, verification_data, wcCookie, client, scope,
          landing_url, last>>

----------------------------------------------------------------------------
(* Bounds and input pools *)

\* number of distinct SERVICE_INFO values the provider may hand out
NumTokens == 2

TokenText(i) == IF i = 1 THEN "si1" ELSE IF i = 2 THEN "si2" ELSE IF i = 3 THEN "si3" ELSE "si4"
ServiceInfoTexts == {TokenText(i) : i \in 1..NumTokens}
CertInfoHashTexts == {"hash1"}
CaptchaVersionTexts == {"cv1"}

\* an attribute that has never been assigned (hasattr is False, reading raises AttributeError)
Absent == "<absent>"
\* a JSON object without the key
NoKey == "<nokey>"
\* the argument checkplus_custom_url left at None
None == "<None>"

Digits == {"0", "1", "2", "3", "4", "5", "6", "7", "8", "9"}

AuthTypes == {"sms", "app_push", "app_qr"}
CellCorps == {"SK", "KT", "LG", "SM", "KM", "LM"}
\* the carriers sessions are constructed with here: one per kind of code
CellCorpInputs == {"SK", "LM"}

DEFAULT_URL == "https://www.ex.co.kr:8070/recruit/company/nice/checkplus_success_company.jsp"
CUSTOM_URL == "https://custom.example/checkplus.jsp"
UrlInputs == {None, CUSTOM_URL}

NameInputs == {"Hong"}

BD_000101 == <<"0","0","0","1","0","1">>            \* YYMMDD, 2000-01-01
BD_20000101 == <<"2","0","0","0","0","1","0","1">>  \* YYYYMMDD, the same date
BD_991231 == <<"9","9","1","2","3","1">>            \* 1999-12-31
BD_001301 == <<"0","0","1","3","0","1">>            \* six digits, month 13
BD_abcdef == <<"a","b","c","d","e","f">>            \* six characters, no digit
BD_0001 == <<"0","0","0","1">>                      \* neither 6 nor 8 characters
BirthdateInputs == {BD_000101, BD_20000101, BD_991231, BD_001301, BD_abcdef, BD_0001}

GenderInputs == {"1", "2", "3", "4", "5", "6", "7", "8"}

PH_11 == <<"0","1","0","1","2","3","4","5","6","7","8">>
PH_HYPHEN == <<"0","1","0","-","1","2","3","4","-","5","6","7","8">>
PH_10 == <<"0","1","0","1","2","3","4","5","6","7">>
PH_11x == <<"0","1","0","1","2","3","4","5","6","7","x">>  \* 11 characters, one no digit
PhoneInputs == {PH_11, PH_HYPHEN, PH_10, PH_11x}

CA_123456 == <<"1","2","3","4","5","6">>
CaptchaInputs == {CA_123456, <<"1","2","3","4","5">>, <<"1","2","3","4","5","x">>, << >>}

SC_654321 == <<"6","5","4","3","2","1">>
SmsCodeInputs ==
    { SC_654321,
      <<"6","5","4","3","2">>,
      <<"6","5","4","3","2","x">>,
      <<" "," "," "," "," "," ">> }

\* the arguments of one send call
SendArgs(name, birthdate, gender, phone_number, captcha_answer) ==
    [name |-> name, birthdate |-> birthdate, gender |-> gender,
     phone_number |-> phone_number, captcha_answer |-> captcha_answer]

\* well-formed calls, and calls that differ from one in one argument (or in all)
SmsSendGood ==
    {SendArgs(n, BD_000101, "1", PH_HYPHEN, CA_123456) : n \in NameInputs}
    \cup {SendArgs("Hong", BD_20000101, "2", PH_11, CA_123456)}
SmsSendInputs ==
    SmsSendGood
    \cup {SendArgs("Hong", b, "2", PH_11, CA_123456) : b \in BirthdateInputs}
    \cup {SendArgs("Hong", BD_000101, g, PH_11, CA_123456) : g \in GenderInputs}
    \cup {SendArgs("Hong", BD_20000101, "1", p, CA_123456) : p \in PhoneInputs}
    \cup {SendArgs("Hong", BD_000101, "1", PH_11, c) : c \in CaptchaInputs}
    \cup {SendArgs("Hong", BD_0001, "1", PH_10, << >>)}

PushSendGood == {SendArgs(n, << >>, "", PH_HYPHEN, CA_123456) : n \in NameInputs}
PushSendInputs ==
    PushSendGood
    \cup {SendArgs("Hong", << >>, "", p, CA_123456) : p \in PhoneInputs}
    \cup {SendArgs("Hong", << >>, "", PH_11, c) : c \in CaptchaInputs}

----------------------------------------------------------------------------
(* Text helpers (Python str methods) *)

\* str.isdigit(): non-empty and every character a digit
IsDigit(s) == Len(s) > 0 /\ \A i \in 1..Len(s) : s[i] \in Digits

\* str.replace("-", "")
IsNotHyphen(c) == c # "-"
RemoveHyphens(s) == SelectSeq(s, IsNotHyphen)

\* str.strip(): drop leading and trailing blanks
RECURSIVE LStrip(_)
LStrip(s) == IF s # << >> /\ Head(s) = " " THEN LStrip(Tail(s)) ELSE s
RECURSIVE RStrip(_)
RStrip(s) == IF s # << >> /\ s[Len(s)] = " " THEN RStrip(SubSeq(s, 1, Len(s) - 1)) ELSE s
Strip(s) == RStrip(LStrip(s))

DigitVal(c) ==
    CASE c = "0" -> 0 [] c = "1" -> 1 [] c = "2" -> 2 [] c = "3" -> 3 [] c = "4" -> 4
      [] c = "5" -> 5 [] c = "6" -> 6 [] c = "7" -> 7 [] c = "8" -> 8 [] c = "9" -> 9

TwoDigits(s, i) == 10 * DigitVal(s[i]) + DigitVal(s[i + 1])

IsLeap(y) == y % 4 = 0 /\ (y % 100 # 0 \/ y % 400 = 0)
DaysInMonth(y, m) ==
    IF m = 2 THEN (IF IsLeap(y) THEN 29 ELSE 28)
    ELSE IF m \in {4, 6, 9, 11} THEN 30 ELSE 31

NoDate == [year |-> 0, month |-> 0, day |-> 0]

\* datetime.strptime(s, "%y%m%d"): two-digit year (00-68 -> 20xx, 69-99 -> 19xx),
\* month and day; anything that is not such a date raises ValueError (ok = FALSE)
strptime_y(s) ==
    IF Len(s) = 6 /\ IsDigit(s)
    THEN LET yy == TwoDigits(s, 1)
             y  == IF yy < 69 THEN 2000 + yy ELSE 1900 + yy
             m  == TwoDigits(s, 3)
             d  == TwoDigits(s, 5)
         IN IF m \in 1..12 /\ d >= 1 /\ d <= DaysInMonth(y, m)
            THEN [ok |-> TRUE, date |-> [year |-> y, month |-> m, day |-> d]]
            ELSE [ok |-> FALSE, date |-> NoDate]
    ELSE [ok |-> FALSE, date |-> NoDate]

\* datetime.strptime(s, "%Y%m%d"): four-digit year, month, day
strptime_Y(s) ==
    IF Len(s) = 8 /\ IsDigit(s)
    THEN LET y == 100 * TwoDigits(s, 1) + TwoDigits(s, 3)
             m == TwoDigits(s, 5)
             d == TwoDigits(s, 7)
         IN IF y >= 1 /\ m \in 1..12 /\ d >= 1 /\ d <= DaysInMonth(y, m)
            THEN [ok |-> TRUE, date |-> [year |-> y, month |-> m, day |-> d]]
            ELSE [ok |-> FALSE, date |-> NoDate]
    ELSE [ok |-> FALSE, date |-> NoDate]

----------------------------------------------------------------------------
(* Result, VerificationData and the exceptions *)

NoData == [kind |-> "None", bytes |-> "", vd |-> {}]
BytesData(b) == [kind |-> "bytes", bytes |-> b, vd |-> {}]
VDData(v) == [kind |-> "VerificationData", bytes |-> "", vd |-> {v}]

VerificationData(name, birthdate, gender, phone_number, mobile_carrier) ==
    [name |-> name, birthdate |-> birthdate, gender |-> gender,
     phone_number |-> phone_number, mobile_carrier |-> mobile_carrier]

\* Result(status, message, data=None)
Result(status, message, data) ==
    [kind |-> "Result", status |-> status, message |-> message, data |-> data, error_code |-> 0]

\* raise <kind>(message, error_code)
Raise(kind, message, error_code) ==
    [kind |-> kind, status |-> FALSE, message |-> message, data |-> NoData,
     error_code |-> error_code]

SessionNotInitializedError(message) == Raise("SessionNotInitializedError", message, 0)
SessionAlreadyInitializedError == Raise("SessionAlreadyInitializedError", "already initialized", 0)
NetworkError(message, error_code) == Raise("NetworkError", message, error_code)
ParseError(message, error_code) == Raise("ParseError", message, error_code)
ValidationError(message) == Raise("ValidationError", message, 3)
\* exceptions of the interpreter that the code does not catch
AttributeError(name) == Raise("AttributeError", name, 0)
ValueError(message) == Raise("ValueError", message, 0)

MSG_NOT_INITIALIZED == "session is not initialized"

\* a coroutine that returns None, or a private helper that returns a tuple
Returned == [kind |-> "return", status |-> TRUE, message |-> "", data |-> NoData, error_code |-> 0]

IsRaise(ret) == ret.kind \notin {"Result", "return"}

----------------------------------------------------------------------------
(* The session object *)

Self ==
    [is_initialized |-> is_initialized, is_verify_sent |-> is_verify_sent,
     AUTH_TYPE |-> AUTH_TYPE, cell_corp |-> cell_corp, SERVICE_INFO |-> SERVICE_INFO,
     CERT_INFO_HASH |-> CERT_INFO_HASH, CAPTCHA_VERSION |-> CAPTCHA_VERSION,
     verification_data |-> verification_data, wcCookie |-> wcCookie]

\* an empty attribute taken for a missing one
hasattr_nonempty(self, name) == self[name] \notin {Absent, ""}

\* hasattr(self, '_<name>')
hasattr(self, name) == self[name] # Absent

\* a request as the client sends it; arg is the variable part of the URL
Req(method, url, arg) == [method |-> method, url |-> url, arg |-> arg]

\* the capture held by a non-empty match set
TheOne(S) == CHOOSE v \in S : TRUE

\* an empty text handed back when the pattern does not match
parse_html_empty(html, var_name, parse_type) ==
    [ok |-> TRUE, value |-> IF html[var_name] = {} THEN {""} ELSE html[var_name],
     err |-> ParseError(var_name, 2)]

\* _parse_html(html, var_name, parse_type): the first capture of the pattern for
\* var_name (parse_type selects the hidden-input or the script-constant pattern),
\* ParseError naming var_name when the pattern does not match
parse_html(html, var_name, parse_type) ==
    [ok |-> html[var_name] # {}, value |-> html[var_name], err |-> ParseError(var_name, 2)]

\* _parse_form_value(html, field_name): same for form1.FIELD.value = '...'
parse_form_value(html, field_name) ==
    [ok |-> html[field_name] # {}, value |-> html[field_name], err |-> ParseError(field_name, 2)]

----------------------------------------------------------------------------
(* Provider responses *)

\* a response that could not be obtained: httpx.RequestError
NetFail(r) == r.err

\* what a call saw of the provider: the JSON body and the decrypted result page
NoJson == [form |-> "none", code |-> NoKey, message |-> NoKey]
NoPage == [NICE_NAME |-> {}, NICE_GENDER |-> {}, NICE_BIRTHEDATE |-> {}, NICE_MOBILENO |-> {}]
Seen(json, page) == [json |-> json, page |-> page]
NoSeen == Seen(NoJson, NoPage)

\* what a call leaves behind: the session, what it returned or raised, the
\* requests it issued in order, and what it saw
Out(self, ret, reqs, seen) == [self |-> self, ret |-> ret, reqs |-> reqs, seen |-> seen]

URL_GATEWAY == "https://nice.checkplus.co.kr/CheckPlusSafeModel/checkplus.cb"
URL_MENU == "https://nice.checkplus.co.kr/cert/main/menu"
URL_METHOD == "https://nice.checkplus.co.kr/cert/mobileCert/method"
URL_CERTIFICATION == "https://nice.checkplus.co.kr/cert/mobileCert/{}/certification"
URL_CAPTCHA == "https://nice.checkplus.co.kr/cert/captcha/image/{}"
URL_SMS_SEND == "https://nice.checkplus.co.kr/cert/mobileCert/sms/certification/proc"
URL_PUSH_SEND == "https://nice.checkplus.co.kr/cert/mobileCert/push/certification/proc"
URL_QR_CERT == "https://nice.checkplus.co.kr/cert/mobileCert/qr/certification"
URL_QR_IMAGE == "https://nice.checkplus.co.kr/cert/qr/image/{}"
URL_SMS_CONFIRM == "https://nice.checkplus.co.kr/cert/mobileCert/sms/confirm/proc"
URL_POLL == "https://nice.checkplus.co.kr/cert/polling/confirm/check/proc"
URL_CONFIRM == "https://nice.checkplus.co.kr/cert/mobileCert/{}/confirm/proc"
URL_RESULT == "https://nice.checkplus.co.kr/cert/result/send"

----------------------------------------------------------------------------
(* init_session *)

\* auth_type.split("app_")[1] for app_push and app_qr, auth_type itself for sms
AuthTypeAction(auth_type) ==
    IF auth_type = "app_push" THEN "push"
    ELSE IF auth_type = "app_qr" THEN "qr" ELSE auth_type

\* a guard that lets an initialized session through
InitRejected_never(self) == FALSE

\* the guard of init_session: an initialized session is rejected
InitRejected(self) == self.is_initialized

\* init_session(auth_type, checkplus_custom_url) against the responses env
init_session(self, auth_type, checkplus_custom_url, env) ==
    LET url == IF checkplus_custom_url = None THEN DEFAULT_URL ELSE checkplus_custom_url
        r1 == <<Req("GET", url, "")>>
        m == parse_html(env.landing, "m", "input")
        encode_data == parse_html(env.landing, "EncodeData", "input")
        s1 == [self EXCEPT !.wcCookie = TRUE]
        r2 == Append(r1, Req("POST", URL_GATEWAY, ""))
        service_info == parse_html(env.gateway, "SERVICE_INFO", "const")
        s2 == [s1 EXCEPT !.SERVICE_INFO = TheOne(service_info.value)]
        r3 == Append(r2, Req("POST", URL_MENU, ""))
        r4 == Append(r3, Req("POST", URL_METHOD, self.cell_corp))
        cert_info_hash == parse_html(env.method, "certInfoHash", "input")
        s3 == [s2 EXCEPT !.CERT_INFO_HASH = TheOne(cert_info_hash.value)]
        r5 == Append(r4, Req("POST", URL_CERTIFICATION, AuthTypeAction(auth_type)))
        captcha_version == parse_html(env.cert, "captchaVersion", "const")
        s4 == [s3 EXCEPT !.CAPTCHA_VERSION =
                   IF auth_type \in {"sms", "app_push"} THEN TheOne(captcha_version.value) ELSE ""]
        s5 == [s4 EXCEPT !.AUTH_TYPE = auth_type, !.is_initialized = TRUE]
    IN  IF InitRejected(self) THEN Out(self, SessionAlreadyInitializedError, << >>, NoSeen)
        ELSE IF NetFail(env.landing)
            THEN Out(self, NetworkError("landing page request failed", 1), r1, NoSeen)
        ELSE IF ~m.ok THEN Out(self, m.err, r1, NoSeen)
        ELSE IF ~encode_data.ok THEN Out(self, encode_data.err, r1, NoSeen)
        ELSE IF NetFail(env.gateway)
            THEN Out(s1, NetworkError("provider request failed", 3), r2, NoSeen)
        ELSE IF ~service_info.ok THEN Out(s1, service_info.err, r2, NoSeen)
        ELSE IF NetFail(env.menu)
            THEN Out(s2, NetworkError("provider request failed", 7), r3, NoSeen)
        ELSE IF NetFail(env.method)
            THEN Out(s2, NetworkError("provider request failed", 7), r4, NoSeen)
        ELSE IF ~cert_info_hash.ok THEN Out(s2, cert_info_hash.err, r4, NoSeen)
        ELSE IF NetFail(env.cert)
            THEN Out(s3, NetworkError("provider request failed", 9), r5, NoSeen)
        ELSE IF auth_type \in {"sms", "app_push"} /\ ~captcha_version.ok
            THEN Out(s3, captcha_version.err, r5, NoSeen)
        ELSE Out(s5, Result(TRUE, "session initialized", NoData), r5, NoSeen)

----------------------------------------------------------------------------
(* retrieve_captcha *)

retrieve_captcha(self, env) ==
    IF ~self.is_initialized \/ ~hasattr(self, "CAPTCHA_VERSION")
    THEN Out(self, SessionNotInitializedError("captcha needs an initialized session"),
             << >>, NoSeen)
    ELSE LET r1 == <<Req("GET", URL_CAPTCHA, self.CAPTCHA_VERSION)>>
         IN IF NetFail(env.captcha)
            THEN Out(self, NetworkError("provider request failed", 1), r1, NoSeen)
            ELSE Out(self, Result(TRUE, "captcha image retrieved", BytesData(env.captcha.content)),
                     r1, NoSeen)

----------------------------------------------------------------------------
(* _verify_input *)

\* _verify_input(birthdate, phone_number, captcha_answer): the normalized triple,
\* or the ValidationError of the first check that fails
verify_input(birthdate, phone_number, captcha_answer) ==
    LET bd == IF Len(birthdate) = 8 THEN SubSeq(birthdate, 3, 8) ELSE birthdate
        pn == RemoveHyphens(phone_number)
        ok(b, p, c) == [ok |-> TRUE, birthdate |-> b, phone_number |-> p,
                        captcha_answer |-> c, err |-> ValidationError("")]
        bad(msg) == [ok |-> FALSE, birthdate |-> bd, phone_number |-> pn,
                     captcha_answer |-> captcha_answer, err |-> ValidationError(msg)]
    IN  IF Len(birthdate) # 6 /\ Len(birthdate) # 8 THEN bad("invalid birthdate")
        ELSE IF Len(pn) # 11 THEN bad("invalid phone number")
        ELSE IF ~IsDigit(captcha_answer) THEN bad("invalid captcha answer")
        ELSE IF Len(captcha_answer) # 6 THEN bad("invalid captcha answer")
        ELSE ok(bd, pn, captcha_answer)

----------------------------------------------------------------------------
(* send_sms_verification, send_push_verification *)

\* the provider's message dropped
GetMessage_default_only(json, default) == default

\* response_json.get('message', default)
GetMessage(json, default) == IF json.message = NoKey THEN default ELSE json.message

\* the body as the call saw it
JsonOf(r) == [form |-> r.form, code |-> r.code, message |-> r.message]

\* the codes 5 to 8 of residents born abroad forgotten
GenderCategory_two_codes(gender) == IF gender \in {"1", "3"} THEN "1" ELSE "2"

\* "1" if gender in ["1", "3", "5", "7"] else "2"
GenderCategory(gender) == IF gender \in {"1", "3", "5", "7"} THEN "1" ELSE "2"

MSG_SEND_DEFAULT == "enter correct verification information"

\* the method of the session left unchecked
send_guard_init_only(self, auth_type) ==
    IF ~self.is_initialized
    THEN {SessionNotInitializedError("send needs an initialized session")}
    ELSE {}

\* the session checks of the send calls: {} when the session is initialized with
\* auth_type, else the SessionNotInitializedError raised
send_guard(self, auth_type) ==
    IF ~self.is_initialized
    THEN {SessionNotInitializedError("send needs an initialized session")}
    ELSE IF self.AUTH_TYPE # auth_type
    THEN {SessionNotInitializedError("send needs a session of its method")}
    ELSE {}

send_sms_verification(self, name, birthdate, gender, phone_number, captcha_answer, env) ==
    LET v == verify_input(birthdate, phone_number, captcha_answer)
        r1 == <<Req("POST", URL_SMS_SEND, "")>>
        seen == Seen(JsonOf(env.send), NoPage)
        bdate == strptime_y(v.birthdate)
        vd == VerificationData(name, bdate.date, GenderCategory(gender), v.phone_number,
                               self.cell_corp)
        s1 == [self EXCEPT !.verification_data = {vd}]
        s2 == [s1 EXCEPT !.is_verify_sent = TRUE]
    IN  IF send_guard(self, "sms") # {}
            THEN Out(self, TheOne(send_guard(self, "sms")), << >>, NoSeen)
        ELSE IF ~v.ok THEN Out(self, v.err, << >>, NoSeen)
        ELSE IF NetFail(env.send)
            THEN Out(self, NetworkError("provider request failed", 1), r1, NoSeen)
        ELSE IF env.send.form # "object"
            THEN Out(self, IF env.send.form = "notjson" THEN ValueError("response is not JSON")
                           ELSE AttributeError("get"), r1, seen)
        ELSE IF env.send.code # "SUCCESS"
            THEN Out(self, Result(FALSE, GetMessage(env.send, MSG_SEND_DEFAULT), NoData), r1, seen)
        ELSE IF ~bdate.ok THEN Out(self, ValueError("birthdate is not a date"), r1, seen)
        ELSE Out(s2, Result(TRUE, "sms verification request sent", NoData), r1, seen)

send_push_verification(self, name, phone_number, captcha_answer, env) ==
    LET v == verify_input(<<"0","0","0","0","0","0">>, phone_number, captcha_answer)
        r1 == <<Req("POST", URL_PUSH_SEND, "")>>
        seen == Seen(JsonOf(env.send), NoPage)
        s1 == [self EXCEPT !.is_verify_sent = TRUE]
    IN  IF send_guard(self, "app_push") # {}
            THEN Out(self, TheOne(send_guard(self, "app_push")), << >>, NoSeen)
        ELSE IF ~v.ok THEN Out(self, v.err, << >>, NoSeen)
        ELSE IF NetFail(env.send)
            THEN Out(self, NetworkError("provider request failed", 1), r1, NoSeen)
        ELSE IF env.send.form # "object"
            THEN Out(self, IF env.send.form = "notjson" THEN ValueError("response is not JSON")
                           ELSE AttributeError("get"), r1, seen)
        ELSE IF env.send.code # "SUCCESS"
            THEN Out(self, Result(FALSE, GetMessage(env.send, MSG_SEND_DEFAULT), NoData), r1, seen)
        ELSE Out(s1, Result(TRUE, "push verification request sent", NoData), r1, seen)

----------------------------------------------------------------------------
(* create_qr_verification *)

create_qr_verification(self, env) ==
    LET r1 == <<Req("POST", URL_QR_CERT, "")>>
        qr_number == env.qr.qr_num
        r2 == Append(r1, Req("GET", URL_QR_IMAGE, TheOne(qr_number)))
        s1 == [self EXCEPT !.is_verify_sent = TRUE]
    IN  IF ~hasattr(self, "SERVICE_INFO")
            THEN Out(self, AttributeError("_SERVICE_INFO"), << >>, NoSeen)
        ELSE IF ~hasattr(self, "CERT_INFO_HASH")
            THEN Out(self, AttributeError("_CERT_INFO_HASH"), << >>, NoSeen)
        ELSE IF NetFail(env.qr)
            THEN Out(self, NetworkError("provider request failed", 1), r1, NoSeen)
        ELSE IF qr_number = {}
            THEN Out(self, ParseError("QR number", 2), r1, NoSeen)
        ELSE IF NetFail(env.qrimg)
            THEN Out(self, NetworkError("QR image request failed", 1), r2, NoSeen)
        ELSE Out(s1, Result(TRUE, TheOne(qr_number), BytesData(env.qrimg.content)), r2, NoSeen)

----------------------------------------------------------------------------
(* check_sms_verification *)

\* not sms_code.strip() or len(sms_code) != 6 or not sms_code.isdigit()
SmsCodeInvalid(sms_code) ==
    Strip(sms_code) = << >> \/ Len(sms_code) # 6 \/ ~IsDigit(sms_code)

MSG_NOT_SENT == "verification has not been started yet"
MSG_RETRY == "enter the correct verification code"
MSG_CONFIRM_DEFAULT == "a problem occurred while confirming"

\* the method of the session left unchecked
check_guard_no_method(self, auth_types) ==
    IF ~self.is_initialized \/ ~hasattr(self, "CAPTCHA_VERSION")
    THEN {SessionNotInitializedError(MSG_NOT_INITIALIZED)}
    ELSE IF ~self.is_verify_sent
    THEN {Result(FALSE, MSG_NOT_SENT, NoData)}
    ELSE {}

\* the sent flag tested before the initialized flag
check_guard_sent_first(self, auth_types) ==
    IF ~self.is_verify_sent
    THEN {Result(FALSE, MSG_NOT_SENT, NoData)}
    ELSE IF ~self.is_initialized \/ ~hasattr(self, "CAPTCHA_VERSION")
    THEN {SessionNotInitializedError(MSG_NOT_INITIALIZED)}
    ELSE IF self.AUTH_TYPE \notin auth_types
    THEN {Result(FALSE, "session is of another method", NoData)}
    ELSE {}

\* the session checks of the check calls: {} when they pass, else what the call
\* raises (no initialized session) or returns (nothing sent, other method)
check_guard(self, auth_types) ==
    IF ~self.is_initialized \/ ~hasattr(self, "CAPTCHA_VERSION")
    THEN {SessionNotInitializedError(MSG_NOT_INITIALIZED)}
    ELSE IF ~self.is_verify_sent
    THEN {Result(FALSE, MSG_NOT_SENT, NoData)}
    ELSE IF self.AUTH_TYPE \notin auth_types
    THEN {Result(FALSE, "session is of another method", NoData)}
    ELSE {}

\* RETRY raised instead of returned
sms_confirm_result_retry_raises(self, json) ==
    IF json.code = "RETRY" THEN ValidationError(MSG_RETRY)
    ELSE IF json.code # "SUCCESS"
    THEN Result(FALSE, GetMessage(json, MSG_CONFIRM_DEFAULT), NoData)
    ELSE IF self.verification_data = {} THEN AttributeError("_verification_data")
    ELSE Result(TRUE, "verification completed", VDData(TheOne(self.verification_data)))

\* the stored data handed out with every answer of the provider
sms_confirm_result_keeps_payload(self, json) ==
    IF self.verification_data = {} THEN AttributeError("_verification_data")
    ELSE IF json.code = "RETRY"
    THEN Result(FALSE, MSG_RETRY, VDData(TheOne(self.verification_data)))
    ELSE IF json.code # "SUCCESS"
    THEN Result(FALSE, GetMessage(json, MSG_CONFIRM_DEFAULT),
                VDData(TheOne(self.verification_data)))
    ELSE Result(TRUE, "verification completed", VDData(TheOne(self.verification_data)))

\* what check_sms_verification makes of the JSON object the provider answered
sms_confirm_result(self, json) ==
    IF json.code = "RETRY" THEN Result(FALSE, MSG_RETRY, NoData)
    ELSE IF json.code # "SUCCESS"
    THEN Result(FALSE, GetMessage(json, MSG_CONFIRM_DEFAULT), NoData)
    ELSE IF self.verification_data = {} THEN AttributeError("_verification_data")
    ELSE Result(TRUE, "verification completed", VDData(TheOne(self.verification_data)))

check_sms_verification(self, sms_code, env) ==
    LET r1 == <<Req("POST", URL_SMS_CONFIRM, "")>>
        seen == Seen(JsonOf(env.confirm), NoPage)
    IN  IF check_guard(self, {"sms"}) # {}
            THEN Out(self, TheOne(check_guard(self, {"sms"})), << >>, NoSeen)
        ELSE IF SmsCodeInvalid(sms_code)
            THEN Out(self, ValidationError("sms code must be 6 digits"), << >>, NoSeen)
        ELSE IF NetFail(env.confirm)
            THEN Out(self, NetworkError("provider request failed", 2), r1, NoSeen)
        ELSE IF env.confirm.form = "notjson"
            THEN Out(self, ParseError("response is not JSON", 3), r1, seen)
        ELSE IF env.confirm.form # "object"
            THEN Out(self, AttributeError("get"), r1, seen)
        ELSE Out(self, sms_confirm_result(self, JsonOf(env.confirm)), r1, seen)

----------------------------------------------------------------------------
(* check_push_verification, check_qr_verification, _get_verification_data *)

\* _get_verification_data(): the recovery sub-protocol; ok with the Verification
\* Data, or the exception it raises, and the requests it issued
get_verification_data(self, env) ==
    LET auth_type_action == AuthTypeAction(self.AUTH_TYPE)
        r1 == <<Req("POST", URL_CONFIRM, auth_type_action)>>
        r2 == Append(r1, Req("POST", URL_RESULT, ""))
        query_string == parse_html(env.result, "queryString", "const")
        r3 == Append(r2, Req("GET", DEFAULT_URL, TheOne(query_string.value)))
        name == parse_form_value(env.decrypt, "NICE_NAME")
        gender == parse_form_value(env.decrypt, "NICE_GENDER")
        birthdate_str == parse_form_value(env.decrypt, "NICE_BIRTHEDATE")
        phone_number == parse_form_value(env.decrypt, "NICE_MOBILENO")
        bdate == strptime_Y(TheOne(birthdate_str.value))
        page == [NICE_NAME |-> env.decrypt.NICE_NAME, NICE_GENDER |-> env.decrypt.NICE_GENDER,
                 NICE_BIRTHEDATE |-> env.decrypt.NICE_BIRTHEDATE,
                 NICE_MOBILENO |-> env.decrypt.NICE_MOBILENO]
        fail(ret, reqs, pg) == [ok |-> FALSE, vd |-> {}, ret |-> ret, reqs |-> reqs, page |-> pg]
    IN  IF NetFail(env.pconfirm) THEN fail(NetworkError("provider request failed", 1), r1, NoPage)
        ELSE IF NetFail(env.result)
            THEN fail(NetworkError("provider request failed", 1), r2, NoPage)
        ELSE IF ~query_string.ok THEN fail(query_string.err, r2, NoPage)
        ELSE IF NetFail(env.decrypt)
            THEN fail(NetworkError("provider request failed", 1), r3, NoPage)
        ELSE IF ~name.ok THEN fail(name.err, r3, page)
        ELSE IF ~gender.ok THEN fail(gender.err, r3, page)
        ELSE IF ~birthdate_str.ok THEN fail(birthdate_str.err, r3, page)
        ELSE IF ~phone_number.ok THEN fail(phone_number.err, r3, page)
        ELSE IF ~bdate.ok THEN fail(ValueError("birthdate is not a date"), r3, page)
        ELSE [ok |-> TRUE,
              vd |-> {VerificationData(TheOne(name.value), bdate.date, TheOne(gender.value),
                                       TheOne(phone_number.value), self.cell_corp)},
              ret |-> Result(TRUE, "", NoData), reqs |-> r3, page |-> page]

\* a missing code taken for the confirmation
PollCode_default_confirmed(json) == IF json.code = NoKey THEN "0000" ELSE json.code

\* str(response_json.get('code', '0001'))
PollCode(json) == IF json.code = NoKey THEN "0001" ELSE json.code

MSG_PENDING == "the user has not confirmed yet"

check_push_verification(self, env) ==
    LET r1 == <<Req("POST", URL_POLL, "")>>
        g == get_verification_data(self, env)
    IN  IF check_guard(self, {"app_push", "app_qr"}) # {}
            THEN Out(self, TheOne(check_guard(self, {"app_push", "app_qr"})), << >>, NoSeen)
        ELSE IF NetFail(env.poll)
            THEN Out(self, NetworkError("provider request failed", 1), r1, NoSeen)
        ELSE IF env.poll.form # "object"
            THEN Out(self, IF env.poll.form = "notjson" THEN ValueError("response is not JSON")
                           ELSE AttributeError("get"), r1, Seen(JsonOf(env.poll), NoPage))
        ELSE IF PollCode(env.poll) # "0000"
            THEN Out(self, Result(FALSE, MSG_PENDING, NoData), r1, Seen(JsonOf(env.poll), NoPage))
        ELSE IF ~g.ok
            THEN Out(self, g.ret, r1 \o g.reqs, Seen(JsonOf(env.poll), g.page))
        ELSE Out(self, Result(TRUE, "verification completed", VDData(TheOne(g.vd))),
                 r1 \o g.reqs, Seen(JsonOf(env.poll), g.page))

\* check_qr_verification() returns what check_push_verification() returns
check_qr_verification(self, env) == check_push_verification(self, env)

----------------------------------------------------------------------------
(* The provider's possible answers to each request *)

Ok(fields) == [err |-> FALSE] @@ fields
Failed(fields) == [err |-> TRUE] @@ fields

\* no match, or the match of one of the texts
Captures(texts) == {{}} \cup {{t} : t \in texts}

NoLanding == Failed([m |-> {}, EncodeData |-> {}])
LandingResponses ==
    {NoLanding} \cup {Ok([m |-> a, EncodeData |-> b]) : a \in {{}, {"m"}}, b \in {{}, {"enc"}}}
NoGateway == Failed([SERVICE_INFO |-> {}])
GatewayResponses == {NoGateway} \cup {Ok([SERVICE_INFO |-> t]) : t \in Captures(ServiceInfoTexts)}
NoPlain == [err |-> TRUE]
PlainResponses == {NoPlain, [err |-> FALSE]}
NoMethod == Failed([certInfoHash |-> {}])
MethodResponses == {NoMethod} \cup {Ok([certInfoHash |-> t]) : t \in Captures(CertInfoHashTexts)}
NoCert == Failed([captchaVersion |-> {}])
CertResponses == {NoCert} \cup {Ok([captchaVersion |-> t]) : t \in Captures(CaptchaVersionTexts)}
NoImage == [err |-> TRUE, content |-> ""]
ImageResponses == {NoImage, [err |-> FALSE, content |-> "png"]}
NoQr == Failed([qr_num |-> {}])
QrResponses == {NoQr} \cup {Ok([qr_num |-> q]) : q \in {{}, {"123456"}}}
NoResult == Failed([queryString |-> {}])
ResultResponses == {NoResult} \cup {Ok([queryString |-> q]) : q \in {{}, {"enc_data=x"}}}

\* a body that is no JSON, a JSON array, or a JSON object with or without
\* the keys code and message
JsonBodies(codes) ==
    {[form |-> "notjson", code |-> NoKey, message |-> NoKey],
     [form |-> "array", code |-> NoKey, message |-> NoKey],
     [form |-> "object", code |-> NoKey, message |-> NoKey]}
    \cup {[form |-> "object", code |-> c, message |-> m] :
            c \in codes, m \in {NoKey, "provider message"}}
JsonResponses(codes) == {Failed(NoJson)} \cup {Ok(j) : j \in JsonBodies(codes)}

SendResponses == JsonResponses({"SUCCESS", "FAIL"})
ConfirmResponses == JsonResponses({"SUCCESS", "RETRY", "FAIL"})
PollResponses == JsonResponses({"0000", "0001"})

\* the answer that lets a call go through
Accepts(code) == Ok([form |-> "object", code |-> code, message |-> NoKey])

\* calls and their answers vary one at a time: any arguments with the accepting
\* answer, and well-formed arguments with any answer
SmsSendCalls ==
    {[args |-> a, send |-> Accepts("SUCCESS")] : a \in SmsSendInputs}
    \cup {[args |-> a, send |-> r] : a \in SmsSendGood, r \in SendResponses}
PushSendCalls ==
    {[args |-> a, send |-> Accepts("SUCCESS")] : a \in PushSendInputs}
    \cup {[args |-> a, send |-> r] : a \in PushSendGood, r \in SendResponses}
SmsCheckCalls ==
    {[sms_code |-> c, confirm |-> Accepts("SUCCESS")] : c \in SmsCodeInputs}
    \cup {[sms_code |-> SC_654321, confirm |-> r] : r \in ConfirmResponses}

PG_BIRTH == <<"2","0","0","0","0","1","0","1">>
PG_BIRTH_BAD == <<"2","0","0","0","1","3","0","1">>
GoodPage ==
    Ok([NICE_NAME |-> {"Hong"}, NICE_GENDER |-> {"1"}, NICE_BIRTHEDATE |-> {PG_BIRTH},
        NICE_MOBILENO |-> {PH_11}])
\* the result page: each field matched or not; a matched value may be empty
NoDecrypt == Failed(NoPage)
DecryptResponses ==
    {NoDecrypt}
    \cup {[GoodPage EXCEPT !.NICE_NAME = n] : n \in {{}, {"Hong"}, {""}}}
    \cup {[GoodPage EXCEPT !.NICE_GENDER = g] : g \in {{}, {"1"}, {"0"}}}
    \cup {[GoodPage EXCEPT !.NICE_BIRTHEDATE = b] : b \in {{}, {PG_BIRTH}, {PG_BIRTH_BAD}}}
    \cup {[GoodPage EXCEPT !.NICE_MOBILENO = p] : p \in {{}, {PH_11}}}

\* A response to a request that the call never issues is immaterial: the sets
\* of responses to a whole call fix it to the failed one.
InitStops(env) ==
    <<env.landing.err \/ env.landing.m = {} \/ env.landing.EncodeData = {},
      env.gateway.err \/ env.gateway.SERVICE_INFO = {},
      env.menu.err,
      env.method.err \/ env.method.certInfoHash = {}>>

InitEnvs ==
    {env \in [landing : LandingResponses, gateway : GatewayResponses, menu : PlainResponses,
              method : MethodResponses, cert : CertResponses] :
        LET stop == InitStops(env)
        IN /\ stop[1] => env.gateway = NoGateway
           /\ stop[1] \/ stop[2] => env.menu = NoPlain
           /\ stop[1] \/ stop[2] \/ stop[3] => env.method = NoMethod
           /\ stop[1] \/ stop[2] \/ stop[3] \/ stop[4] => env.cert = NoCert}

QrEnvs ==
    {env \in [qr : QrResponses, qrimg : ImageResponses] :
        (env.qr.err \/ env.qr.qr_num = {}) => env.qrimg = NoImage}

PollEnvs ==
    {env \in [poll : PollResponses, pconfirm : PlainResponses, result : ResultResponses,
              decrypt : DecryptResponses] :
        LET stop1 == env.poll.err \/ env.poll.form # "object" \/ env.poll.code # "0000"
            stop2 == stop1 \/ env.pconfirm.err
            stop3 == stop2 \/ env.result.err \/ env.result.queryString = {}
        IN /\ stop1 => env.pconfirm = NoPlain
           /\ stop2 => env.result = NoResult
           /\ stop3 => env.decrypt = NoDecrypt}

\* a call that the session checks stop issues no request, so there is nothing
\* the provider answers it: the answers are fixed to the failed ones
StoppedInit ==
    [landing |-> NoLanding, gateway |-> NoGateway, menu |-> NoPlain, method |-> NoMethod,
     cert |-> NoCert]
StoppedPoll == [poll |-> Failed(NoJson), pconfirm |-> NoPlain, result |-> NoResult, decrypt |-> NoDecrypt]

InitEnvsOn(self) == IF InitRejected(self) THEN {StoppedInit} ELSE InitEnvs
PollEnvsOn(self) ==
    IF check_guard(self, {"app_push", "app_qr"}) # {} THEN {StoppedPoll} ELSE PollEnvs
SmsSendCallsOn(self) ==
    IF send_guard(self, "sms") # {}
    THEN {c \in SmsSendCalls : c.send = Accepts("SUCCESS")} ELSE SmsSendCalls
PushSendCallsOn(self) ==
    IF send_guard(self, "app_push") # {}
    THEN {c \in PushSendCalls : c.send = Accepts("SUCCESS")} ELSE PushSendCalls
SmsCheckCallsOn(self) ==
    IF check_guard(self, {"sms"}) # {}
    THEN {c \in SmsCheckCalls : c.confirm = Accepts("SUCCESS")} ELSE SmsCheckCalls

----------------------------------------------------------------------------
(* The state machine *)

NoArgs ==
    [auth_type |-> "", url |-> "", name |-> "", birthdate |-> << >>, gender |-> "",
     phone_number |-> << >>, captcha_answer |-> << >>, sms_code |-> << >>, exc_type |-> ""]

\* what a call of the private validator handed back; NoValue for the other calls
NoValue == verify_input(<< >>, << >>, << >>)

\* how a call ended: "raise", "success", or for a failed Result the status code
\* of the provider response it reports ("" when it issued no request)
Outcome(call) ==
    IF IsRaise(call.ret) THEN "raise"
    ELSE IF call.ret.status THEN "success"
    ELSE IF call.reqs = << >> THEN "" ELSE call.seen.json.code

\* for a call of op: the outcome of the call right before it when that was a
\* call of op too, "first" otherwise
After(op) == IF last.op = op THEN Outcome(last) ELSE "first"

Init ==
    /\ is_initialized = FALSE
    /\ is_verify_sent = FALSE
    /\ AUTH_TYPE = ""
    /\ cell_corp \in CellCorpInputs
    /\ SERVICE_INFO = Absent
    /\ CERT_INFO_HASH = Absent
    /\ CAPTCHA_VERSION = Absent
    /\ verification_data = {}
    /\ wcCookie = FALSE
    /\ client = "open"
    /\ scope = "none"
    /\ landing_url = ""
    /\ last = [op |-> "__init__", args |-> NoArgs, ret |-> Result(TRUE, "", NoData),
               reqs |-> << >>, seen |-> NoSeen, after |-> "first", before |-> Self,
               value |-> NoValue]

\* the call op(args) ran on the open client and left out behind
Call(op, args, out) ==
    /\ client = "open"
    /\ scope \in {"none", "inside"}
    /\ is_initialized' = out.self.is_initialized
    /\ is_verify_sent' = out.self.is_verify_sent
    /\ AUTH_TYPE' = out.self.AUTH_TYPE
    /\ cell_corp' = out.self.cell_corp
    /\ SERVICE_INFO' = out.self.SERVICE_INFO
    /\ CERT_INFO_HASH' = out.self.CERT_INFO_HASH
    /\ CAPTCHA_VERSION' = out.self.CAPTCHA_VERSION
    /\ verification_data' = out.self.verification_data
    /\ wcCookie' = out.self.wcCookie
    /\ UNCHANGED <<client, scope>>
    /\ landing_url' = IF op = "init_session" /\ out.ret.kind = "Result" /\ out.ret.status
                      THEN out.reqs[1].url ELSE landing_url
    /\ last' = [op |-> op, args |-> args, ret |-> out.ret, reqs |-> out.reqs, seen |-> out.seen,
                after |-> After(op), before |-> Self, value |-> NoValue]

InitSession ==
    \E auth_type \in AuthTypes, url \in UrlInputs, env \in InitEnvsOn(Self) :
        Call("init_session", [NoArgs EXCEPT !.auth_type = auth_type, !.url = url],
             init_session(Self, auth_type, url, env))

RetrieveCaptcha ==
    \E captcha \in ImageResponses :
        Call("retrieve_captcha", NoArgs, retrieve_captcha(Self, [captcha |-> captcha]))

SendSmsVerification ==
    \E c \in SmsSendCallsOn(Self) :
        LET a == c.args
        IN Call("send_sms_verification",
                [NoArgs EXCEPT !.name = a.name, !.birthdate = a.birthdate, !.gender = a.gender,
                               !.phone_number = a.phone_number,
                               !.captcha_answer = a.captcha_answer],
                send_sms_verification(Self, a.name, a.birthdate, a.gender, a.phone_number,
                                      a.captcha_answer, [send |-> c.send]))

SendPushVerification ==
    \E c \in PushSendCallsOn(Self) :
        LET a == c.args
        IN Call("send_push_verification",
                [NoArgs EXCEPT !.name = a.name, !.phone_number = a.phone_number,
                               !.captcha_answer = a.captcha_answer],
                send_push_verification(Self, a.name, a.phone_number, a.captcha_answer,
                                       [send |-> c.send]))

CreateQrVerification ==
    \E env \in QrEnvs :
        Call("create_qr_verification", NoArgs, create_qr_verification(Self, env))

CheckSmsVerification ==
    \E c \in SmsCheckCallsOn(Self) :
        Call("check_sms_verification", [NoArgs EXCEPT !.sms_code = c.sms_code],
             check_sms_verification(Self, c.sms_code, [confirm |-> c.confirm]))

CheckPushVerification ==
    \E env \in PollEnvsOn(Self) :
        Call("check_push_verification", NoArgs, check_push_verification(Self, env))

CheckQrVerification ==
    \E env \in PollEnvsOn(Self) :
        Call("check_qr_verification", NoArgs, check_qr_verification(Self, env))

\* close(): the client is closed
close(c) == "closed"

\* the caller closes the session and drops it
Close ==
    /\ client = "open"
    /\ scope = "none"
    /\ client' = close(client)
    /\ last' = [op |-> "close", args |-> NoArgs, ret |-> Returned, reqs |-> << >>,
                seen |-> NoSeen, after |-> After("close"), before |-> Self, value |-> NoValue]
    /\ UNCHANGED <<is_initialized, is_verify_sent, AUTH_TYPE, cell_corp, SERVICE_INFO,
                   CERT_INFO_HASH, CAPTCHA_VERSION, verification_data, wcCookie, scope,
                   landing_url>>

\* a session used without `async with`: operations on the open client, then
\* possibly close()
Next ==
    \/ InitSession
    \/ RetrieveCaptcha
    \/ SendSmsVerification
    \/ SendPushVerification
    \/ CreateQrVerification
    \/ CheckSmsVerification
    \/ CheckPushVerification
    \/ CheckQrVerification
    \/ Close

Spec == Init /\ [][Next]_vars

----------------------------------------------------------------------------
(* The session as a scoped resource: async with PASS_NICE(...) as session *)

\* __aenter__ returns the session itself
AEnter ==
    /\ last.op = "__init__"
    /\ scope = "none"
    /\ scope' = "inside"
    /\ last' = [op |-> "__aenter__", args |-> NoArgs, ret |-> Returned, reqs |-> << >>,
                seen |-> NoSeen, after |-> "first", before |-> Self, value |-> NoValue]
    /\ UNCHANGED <<is_initialized, is_verify_sent, AUTH_TYPE, cell_corp, SERVICE_INFO,
                   CERT_INFO_HASH, CAPTCHA_VERSION, verification_data, wcCookie, client,
                   landing_url>>

\* the ways the block can be left after the last call: at its end (exc_type is
\* None: the call returned, or what it raised was handled inside the block) or
\* by the error the call raised
ExitPaths == {None} \cup (IF IsRaise(last.ret) THEN {last.ret.kind} ELSE {})

\* the client closed when the block ends without an error only
aexit_normal_only(c, exc_type) == IF exc_type = None THEN close(c) ELSE c

\* __aexit__(exc_type, exc_val, exc_tb) awaits close()
aexit(c, exc_type) == close(c)

AExit ==
    /\ scope = "inside"
    /\ \E exc_type \in ExitPaths :
          /\ client' = aexit(client, exc_type)
          /\ last' = [op |-> "__aexit__", args |-> [NoArgs EXCEPT !.exc_type = exc_type],
                      ret |-> Returned, reqs |-> << >>, seen |-> NoSeen, after |-> "first",
                      before |-> Self, value |-> NoValue]
    /\ scope' = "left"
    /\ UNCHANGED <<is_initialized, is_verify_sent, AUTH_TYPE, cell_corp, SERVICE_INFO,
                   CERT_INFO_HASH, CAPTCHA_VERSION, verification_data, wcCookie,
                   landing_url>>

\* a session used with `async with`: entered, operations inside the block, left
NextScoped ==
    \/ AEnter
    \/ scope = "inside" /\ InitSession
    \/ scope = "inside" /\ RetrieveCaptcha
    \/ scope = "inside" /\ SendSmsVerification
    \/ scope = "inside" /\ SendPushVerification
    \/ scope = "inside" /\ CreateQrVerification
    \/ scope = "inside" /\ CheckSmsVerification
    \/ scope = "inside" /\ CheckPushVerification
    \/ scope = "inside" /\ CheckQrVerification
    \/ AExit

SpecScoped == Init /\ [][NextScoped]_vars

----------------------------------------------------------------------------
(* The private validator _verify_input applied to texts of bounded length *)

MaxBirthLen == 8
MaxPhoneLen == 13

\* every text of at most n characters of the alphabet
Texts(alphabet, n) == UNION {[1..k -> alphabet] : k \in 0..n}

BirthdateTexts == BirthdateInputs \cup Texts({"0", "1", "a"}, MaxBirthLen)

\* n digits
PhoneDigits(n) == [i \in 1..n |-> IF i = 2 THEN "1" ELSE "0"]
\* digit strings of at most MaxPhoneLen characters, as they are and with one or
\* two characters replaced by a hyphen or a letter
PhoneTexts ==
    PhoneInputs
    \cup {PhoneDigits(n) : n \in 0..MaxPhoneLen}
    \cup UNION {{[PhoneDigits(n) EXCEPT ![i] = c, ![j] = d] :
                    i \in 1..n, j \in 1..n, c \in {"-", "x"}, d \in {"-", "x"}} :
                n \in 1..MaxPhoneLen}

VerifyInputs ==
    {<<b, PH_11, CA_123456>> : b \in BirthdateTexts}
    \cup {<<BD_000101, p, CA_123456>> : p \in PhoneTexts}
    \cup {<<BD_20000101, PH_HYPHEN, c>> : c \in CaptchaInputs}

\* one call _verify_input(birthdate, phone_number, captcha_answer)
VerifyInput ==
    /\ last.op = "__init__"
    /\ \E a \in VerifyInputs :
          LET v == verify_input(a[1], a[2], a[3])
          IN last' = [op |-> "_verify_input",
                      args |-> [NoArgs EXCEPT !.birthdate = a[1], !.phone_number = a[2],
                                              !.captcha_answer = a[3]],
                      ret |-> IF v.ok THEN Returned ELSE v.err,
                      reqs |-> << >>, seen |-> NoSeen, after |-> "first", before |-> Self,
                      value |-> v]
    /\ UNCHANGED <<is_initialized, is_verify_sent, AUTH_TYPE, cell_corp, SERVICE_INFO,
                   CERT_INFO_HASH, CAPTCHA_VERSION, verification_data, wcCookie, client, scope,
                   landing_url>>

NextInput == VerifyInput

SpecInput == Init /\ [][NextInput]_vars

----------------------------------------------------------------------------
(* Properties *)

SendOps == {"send_sms_verification", "send_push_verification"}
PollOps == {"check_push_verification", "check_qr_verification"}

\* the last call got a JSON object from the provider
GotObject == last.reqs # << >> /\ last.seen.json.form = "object"
\* the last call returned a failed Result without payload
SoftFailure == last.ret.kind = "Result" /\ ~last.ret.status /\ last.ret.data = NoData
\* the last call returned a successful Result
Succeeded == last.ret.kind = "Result" /\ last.ret.status
\* the last call left every attribute of the session as it was
SessionUntouched == Self = last.before
\* the call before the last was a call of the same operation that returned a
\* failed Result for a provider answer
AfterSoftFailure == last.after \notin {"first", "raise", "success", ""}

\* the arguments of the last send call as _verify_input normalizes them
Normalized ==
    verify_input(IF last.op = "send_push_verification" THEN <<"0","0","0","0","0","0">>
                 ELSE last.args.birthdate,
                 last.args.phone_number, last.args.captcha_answer)

\* C1: once init_session has succeeded the session stays initialized, and every
\* later init_session call, whatever its arguments, raises
\* SessionAlreadyInitializedError, issues no request and changes no attribute.
C1_ReinitRejected ==
    /\ (last.op = "init_session" /\ Succeeded) => is_initialized
    /\ last.before.is_initialized => is_initialized
    /\ (last.op = "init_session" /\ last.before.is_initialized) =>
          /\ last.ret = SessionAlreadyInitializedError
          /\ last.reqs = << >>
          /\ SessionUntouched

C1_Witness ==
    /\ last.op = "init_session"
    /\ last.before.is_initialized
    /\ last.ret.kind = "SessionAlreadyInitializedError"
    /\ last.args.auth_type # last.before.AUTH_TYPE
    /\ last.args.url = CUSTOM_URL

\* C2: send_sms_verification on a session that is not initialized, or is
\* initialized with another method than sms, raises SessionNotInitializedError
\* whatever the arguments (so before they are validated), issues no request and
\* leaves the session as it was; send_push_verification likewise with app_push.
C2_SendNeedsSession ==
    /\ (/\ last.op = "send_sms_verification"
        /\ ~(last.before.is_initialized /\ last.before.AUTH_TYPE = "sms")) =>
          /\ last.ret.kind = "SessionNotInitializedError"
          /\ last.reqs = << >>
          /\ SessionUntouched
    /\ (/\ last.op = "send_push_verification"
        /\ ~(last.before.is_initialized /\ last.before.AUTH_TYPE = "app_push")) =>
          /\ last.ret.kind = "SessionNotInitializedError"
          /\ last.reqs = << >>
          /\ SessionUntouched

C2_Witness ==
    /\ last.op = "send_sms_verification"
    /\ last.before.is_initialized
    /\ last.before.AUTH_TYPE = "app_push"
    /\ ~Normalized.ok
    /\ last.ret.kind = "SessionNotInitializedError"

\* what the callers are told to pass
IsBirthdate(b) == Len(b) \in {6, 8} /\ IsDigit(b)
IsPhoneNumber(p) == Len(RemoveHyphens(p)) = 11 /\ IsDigit(RemoveHyphens(p))
IsSixDigits(c) == Len(c) = 6 /\ IsDigit(c)

\* C3: a send or check call whose birthdate is not 6 or 8 digits, whose
\* phone number does not normalize to 11 digits, or whose CAPTCHA answer or SMS
\* code is not 6 digits issues no request, and raises ValidationError when the
\* session checks let it through.
C3_InvalidInputNeverSent ==
    /\ (/\ last.op = "send_sms_verification"
        /\ \/ ~IsBirthdate(last.args.birthdate)
           \/ ~IsPhoneNumber(last.args.phone_number)
           \/ ~IsSixDigits(last.args.captcha_answer)) =>
          /\ last.reqs = << >>
          /\ (last.before.is_initialized /\ last.before.AUTH_TYPE = "sms") =>
                last.ret.kind = "ValidationError"
    /\ (/\ last.op = "send_push_verification"
        /\ \/ ~IsPhoneNumber(last.args.phone_number)
           \/ ~IsSixDigits(last.args.captcha_answer)) =>
          /\ last.reqs = << >>
          /\ (last.before.is_initialized /\ last.before.AUTH_TYPE = "app_push") =>
                last.ret.kind = "ValidationError"
    /\ (last.op = "check_sms_verification" /\ ~IsSixDigits(last.args.sms_code)) =>
          /\ last.reqs = << >>
          /\ (/\ last.before.is_initialized
              /\ last.before.is_verify_sent
              /\ last.before.AUTH_TYPE = "sms") => last.ret.kind = "ValidationError"

\* C4: a send call that the provider answers with a status code other than
\* SUCCESS returns a failed Result without payload carrying the provider's
\* message or the default one and leaves the session as it was; the same call
\* made again and answered SUCCESS goes through.
C4_SendSoftFailure ==
    /\ (last.op \in SendOps /\ GotObject /\ last.seen.json.code # "SUCCESS") =>
          /\ last.ret = Result(FALSE,
                               IF last.seen.json.message = NoKey THEN MSG_SEND_DEFAULT
                               ELSE last.seen.json.message, NoData)
          /\ SessionUntouched
    /\ (/\ last.op \in SendOps
        /\ AfterSoftFailure
        /\ GotObject
        /\ last.seen.json.code = "SUCCESS"
        /\ (last.op = "send_sms_verification" => strptime_y(Normalized.birthdate).ok)) =>
          /\ Succeeded
          /\ is_verify_sent

C4_Witness ==
    /\ last.op = "send_sms_verification"
    /\ last.after = "FAIL"
    /\ last.before.is_verify_sent = FALSE
    /\ Succeeded

\* odd gender codes are category "1", even ones category "2"
OddEven(gender) == IF DigitVal(gender) % 2 = 1 THEN "1" ELSE "2"

\* C5: when the provider answers send_sms_verification with SUCCESS the call
\* succeeds, the session is VerificationSent and the stored Verification Data
\* holds the name as given, the date of the normalized birthdate, the phone
\* number without hyphens, the odd/even gender category and the session's carrier.
C5_SmsSuccessStoresData ==
    (last.op = "send_sms_verification" /\ GotObject /\ last.seen.json.code = "SUCCESS") =>
        /\ Succeeded
        /\ is_verify_sent
        /\ verification_data =
              {VerificationData(last.args.name, strptime_y(Normalized.birthdate).date,
                                OddEven(last.args.gender),
                                RemoveHyphens(last.args.phone_number), cell_corp)}

\* C6: whenever the verification-sent flag is set on an sms session the stored
\* Verification Data exists, and a check_sms_verification that the provider
\* answers with SUCCESS returns it in a successful Result.
C6_SentSmsHasData ==
    /\ (is_verify_sent /\ AUTH_TYPE = "sms") => verification_data # {}
    /\ (last.op = "check_sms_verification" /\ GotObject /\ last.seen.json.code = "SUCCESS") =>
          /\ Succeeded
          /\ last.before.verification_data # {}
          /\ last.ret.data.vd = last.before.verification_data

\* C7: a check_sms_verification that the provider answers with RETRY returns a
\* failed Result without payload, raises nothing and leaves the session as it
\* was; the next check_sms_verification, answered SUCCESS, returns the stored
\* Verification Data.
C7_RetryIsSoft ==
    /\ (last.op = "check_sms_verification" /\ GotObject /\ last.seen.json.code = "RETRY") =>
          /\ SoftFailure
          /\ SessionUntouched
    /\ (/\ last.op = "check_sms_verification"
        /\ last.after = "RETRY"
        /\ GotObject
        /\ last.seen.json.code = "SUCCESS"
        /\ last.before.verification_data # {}) =>
          /\ Succeeded
          /\ last.ret.data = VDData(TheOne(last.before.verification_data))

C7_Witness ==
    /\ last.op = "check_sms_verification"
    /\ last.after = "RETRY"
    /\ Succeeded
    /\ last.ret.data.kind = "VerificationData"

\* C8: on an initialized session check_sms_verification returns a failed Result
\* without payload and issues no request when nothing was sent or the method is
\* not sms, whatever the code (so before the code is validated); the push and
\* QR checks do the same when nothing was sent or the method is sms.
C8_CheckSoftFailsFirst ==
    /\ (/\ last.op = "check_sms_verification"
        /\ last.before.is_initialized
        /\ (~last.before.is_verify_sent \/ last.before.AUTH_TYPE # "sms")) =>
          /\ SoftFailure
          /\ last.reqs = << >>
    /\ (/\ last.op \in PollOps
        /\ last.before.is_initialized
        /\ (~last.before.is_verify_sent
            \/ last.before.AUTH_TYPE \notin {"app_push", "app_qr"})) =>
          /\ SoftFailure
          /\ last.reqs = << >>

C8_Witness ==
    /\ last.op = "check_sms_verification"
    /\ last.before.is_initialized
    /\ last.before.is_verify_sent
    /\ last.before.AUTH_TYPE # "sms"
    /\ SmsCodeInvalid(last.args.sms_code)
    /\ SoftFailure

\* the result page has all four fields and its birthdate is a date
PageComplete(page) ==
    /\ page.NICE_NAME # {}
    /\ page.NICE_GENDER # {}
    /\ page.NICE_BIRTHEDATE # {}
    /\ page.NICE_MOBILENO # {}
    /\ strptime_Y(TheOne(page.NICE_BIRTHEDATE)).ok

\* C9: a push or QR check whose poll is answered with another code than "0000",
\* or none, returns a failed Result without payload, issues the poll request
\* only and leaves the session as it was; a check answered "0000" whose recovery
\* steps go through returns Verification Data holding the name, gender,
\* birthdate and phone number of the result page and the session's carrier.
C9_PollRepeatable ==
    /\ (last.op \in PollOps /\ GotObject /\ last.seen.json.code # "0000") =>
          /\ SoftFailure
          /\ last.reqs = <<Req("POST", URL_POLL, "")>>
          /\ SessionUntouched
    /\ (/\ last.op \in PollOps
        /\ GotObject
        /\ last.seen.json.code = "0000"
        /\ PageComplete(last.seen.page)) =>
          /\ Succeeded
          /\ last.ret.data =
                VDData(VerificationData(TheOne(last.seen.page.NICE_NAME),
                                        strptime_Y(TheOne(last.seen.page.NICE_BIRTHEDATE)).date,
                                        TheOne(last.seen.page.NICE_GENDER),
                                        TheOne(last.seen.page.NICE_MOBILENO),
                                        cell_corp))
    /\ (last.op \in PollOps /\ Succeeded) =>
          /\ last.seen.json.code = "0000"
          /\ PageComplete(last.seen.page)

C9_Witness ==
    /\ last.op \in PollOps
    /\ last.after \in {"0001", NoKey}
    /\ Succeeded
    /\ last.ret.data.kind = "VerificationData"

\* C10: a Result with success false carries no payload; a payload comes only
\* with success true.
C10_FailedResultHasNoPayload ==
    last.ret.kind = "Result" => (last.ret.data # NoData => last.ret.status)

C10_Witness ==
    /\ last.op = "check_sms_verification"
    /\ last.ret.kind = "Result"
    /\ ~last.ret.status
    /\ GotObject
    /\ last.seen.json.code = "FAIL"
    /\ last.before.verification_data # {}

\* the session the last call ran on was initialized with one of the methods
InitializedWith(auth_types) ==
    last.before.is_initialized /\ last.before.AUTH_TYPE \in auth_types

\* C11: retrieve_captcha raises SessionNotInitializedError and issues no request
\* on a session that is not initialized and on one initialized with app_qr; only
\* on a session initialized with sms or app_push does it issue the captcha image
\* GET, and a successful Result then carries the image bytes.
C11_CaptchaNeedsVersion ==
    last.op = "retrieve_captcha" =>
        /\ ~InitializedWith({"sms", "app_push"}) =>
              /\ last.ret.kind = "SessionNotInitializedError"
              /\ last.reqs = << >>
        /\ InitializedWith({"sms", "app_push"}) =>
              /\ last.reqs = <<Req("GET", URL_CAPTCHA, last.before.CAPTCHA_VERSION)>>
              /\ Succeeded => last.ret.data.kind = "bytes"

\* C12: create_qr_verification on a session that is not initialized, or is
\* initialized with another method than app_qr, raises
\* SessionNotInitializedError, issues no request and does not set the
\* verification-sent flag; the flag is set by it on an app_qr session only.
C12_QrNeedsQrSession ==
    last.op = "create_qr_verification" =>
        /\ ~InitializedWith({"app_qr"}) =>
              /\ last.ret.kind = "SessionNotInitializedError"
              /\ last.reqs = << >>
              /\ is_verify_sent = last.before.is_verify_sent
        /\ (is_verify_sent /\ ~last.before.is_verify_sent) => InitializedWith({"app_qr"})

\* C13: on a session initialized with app_qr on which create_qr_verification
\* has succeeded, check_qr_verification and check_push_verification are not
\* rejected with SessionNotInitializedError: the poll request is issued first,
\* an answer other than "0000" gives the pending soft failure, and an answer
\* "0000" followed by a complete result page gives the Verification Data.
C13_QrCheckNeedsNoCaptcha ==
    (last.op \in PollOps /\ InitializedWith({"app_qr"}) /\ last.before.is_verify_sent) =>
        /\ last.ret.kind # "SessionNotInitializedError"
        /\ last.reqs # << >>
        /\ Head(last.reqs) = Req("POST", URL_POLL, "")
        /\ (GotObject /\ last.seen.json.code # "0000") =>
              last.ret = Result(FALSE, MSG_PENDING, NoData)
        /\ (GotObject /\ last.seen.json.code = "0000" /\ PageComplete(last.seen.page)) =>
              /\ Succeeded
              /\ last.ret.data.kind = "VerificationData"

C13_Witness ==
    /\ last.op = "check_qr_verification"
    /\ InitializedWith({"app_qr"})
    /\ last.before.is_verify_sent
    /\ last.before.CAPTCHA_VERSION = ""
    /\ last.after = "0001"
    /\ Succeeded
    /\ last.ret.data.kind = "VerificationData"

\* the last call was _verify_input with no fault in the other two arguments
VerifiedBirthdate ==
    /\ last.op = "_verify_input"
    /\ IsPhoneNumber(last.args.phone_number)
    /\ IsSixDigits(last.args.captcha_answer)
VerifiedPhoneNumber ==
    /\ last.op = "_verify_input"
    /\ IsBirthdate(last.args.birthdate)
    /\ IsSixDigits(last.args.captcha_answer)

\* C14: the validator accepts a birthdate of six digits and hands it back as it
\* is, accepts one of eight digits and hands back its last six, and raises
\* ValidationError for every other birthdate (another length, or a character
\* that is no digit).
C14_BirthdateNormalization ==
    VerifiedBirthdate =>
        LET b == last.args.birthdate
        IN IF IsDigit(b) /\ Len(b) = 6
               THEN last.ret = Returned /\ last.value.birthdate = b
           ELSE IF IsDigit(b) /\ Len(b) = 8
               THEN last.ret = Returned /\ last.value.birthdate = SubSeq(b, 3, 8)
           ELSE last.ret.kind = "ValidationError"

\* C15: the validator accepts a phone number that holds eleven digits once its
\* hyphens are removed and hands back these digits, and raises ValidationError
\* for every other phone number, one of eleven characters that are not all
\* digits included.
C15_PhoneNormalization ==
    VerifiedPhoneNumber =>
        LET p == RemoveHyphens(last.args.phone_number)
        IN IF IsDigit(p) /\ Len(p) = 11
               THEN last.ret = Returned /\ last.value.phone_number = p
           ELSE last.ret.kind = "ValidationError"

\* C16: the Verification Data a successful send_sms_verification stores has
\* gender "1" for the codes 1, 3, 5, 7 and gender "2" for the codes 2, 4, 6, 8.
C16_GenderCategory ==
    (last.op = "send_sms_verification" /\ Succeeded) =>
        /\ verification_data # {}
        /\ last.args.gender \in {"1", "3", "5", "7"} => TheOne(verification_data).gender = "1"
        /\ last.args.gender \in {"2", "4", "6", "8"} => TheOne(verification_data).gender = "2"

C16_Witness ==
    /\ last.op = "send_sms_verification"
    /\ Succeeded
    /\ last.args.gender = "7"
    /\ TheOne(verification_data).gender = "1"

\* C17: a session used with `async with` has its client open as long as the
\* caller is inside the block and closed once the block is left, whether it is
\* left at its end or by an error, and whatever was called inside it.
C17_GuaranteedCleanup ==
    /\ scope = "inside" => client = "open"
    /\ scope = "left" => client = "closed"

C17_Witness ==
    /\ scope = "left"
    /\ last.op = "__aexit__"
    /\ last.args.exc_type = "NetworkError"
    /\ last.before.is_initialized
    /\ last.before.is_verify_sent
    /\ client = "closed"

VerificationOps ==
    {"init_session", "retrieve_captcha", "create_qr_verification", "check_sms_verification"}
    \cup SendOps \cup PollOps

\* C18: every call of a verification operation ends in a Result or in one of
\* SessionNotInitializedError, SessionAlreadyInitializedError, NetworkError,
\* ParseError, ValidationError, and in nothing else; a status code the provider
\* reports, other than the one for success, always ends in a Result.
C18_ResultOrFourErrors ==
    last.op \in VerificationOps =>
        /\ last.ret.kind \in {"Result", "SessionNotInitializedError",
                               "SessionAlreadyInitializedError", "NetworkError",
                               "ParseError", "ValidationError"}
        /\ (GotObject /\ last.seen.json.code \notin {NoKey, "SUCCESS", "0000"}) =>
              last.ret.kind = "Result"

\* the method and URL of each request
Endpoints(reqs) == [i \in 1..Len(reqs) |-> <<reqs[i].method, reqs[i].url>>]

\* the five requests of init_session in the order of the protocol
InitEndpoints ==
    <<<<"GET", IF last.args.url = None THEN DEFAULT_URL ELSE last.args.url>>,
      <<"POST", URL_GATEWAY>>, <<"POST", URL_MENU>>, <<"POST", URL_METHOD>>,
      <<"POST", URL_CERTIFICATION>>>>
\* per request: the code of its NetworkError and the fields parsed from its response
InitStageCodes == <<1, 3, 7, 7, 9>>
InitStageFields == <<{"m", "EncodeData"}, {"SERVICE_INFO"}, {}, {"certInfoHash"}, {"captchaVersion"}>>

\* C19: init_session on a session that is not initialized issues the landing
\* GET, the gateway POST, the menu POST, the method POST and the certification
\* POST in this order and stops at the first that fails: a transport failure
\* raises NetworkError with the code of the request (1, 3, 7, 7, 9), a field
\* missing from a response raises ParseError naming the field, and no request
\* follows either; the cookie is set before the gateway POST, the session token
\* before the menu POST, the cert token before the certification POST.
C19_InitRequestOrder ==
    (last.op = "init_session" /\ ~last.before.is_initialized) =>
        LET n == Len(last.reqs)
        IN /\ n \in 1..5
           /\ Endpoints(last.reqs) = SubSeq(InitEndpoints, 1, n)
           /\ last.ret.kind \in {"Result", "NetworkError", "ParseError"}
           /\ last.ret.kind = "NetworkError" => last.ret.error_code = InitStageCodes[n]
           /\ last.ret.kind = "ParseError" => last.ret.message \in InitStageFields[n]
           /\ last.ret.kind = "Result" => (Succeeded /\ n = 5)
           /\ n = 1 => wcCookie = last.before.wcCookie
           /\ n >= 2 => wcCookie
           /\ n >= 3 => SERVICE_INFO \in ServiceInfoTexts
           /\ n = 5 => CERT_INFO_HASH \in CertInfoHashTexts

C19_Witness ==
    /\ last.op = "init_session"
    /\ ~last.before.is_initialized
    /\ last.ret.kind = "ParseError"
    /\ last.ret.message = "certInfoHash"
    /\ Len(last.reqs) = 4
    /\ wcCookie
    /\ SERVICE_INFO \in ServiceInfoTexts

GuardedOps ==
    {"retrieve_captcha", "check_sms_verification"} \cup SendOps \cup PollOps

\* C20: an init_session that raises NetworkError or ParseError leaves the
\* session not initialized with an empty method; on a session that is not
\* initialized retrieve_captcha and the send and check calls raise
\* SessionNotInitializedError; the session becomes initialized only by a
\* successful init_session, and an initialized session has its session token,
\* cert token, captcha version and method set.
C20_FailedInitStaysUninitialized ==
    /\ (last.op = "init_session" /\ last.ret.kind \in {"NetworkError", "ParseError"}) =>
          /\ ~is_initialized
          /\ AUTH_TYPE = ""
    /\ (last.op \in GuardedOps /\ ~last.before.is_initialized) =>
          /\ last.ret.kind = "SessionNotInitializedError"
          /\ last.reqs = << >>
    /\ (is_initialized /\ ~last.before.is_initialized) =>
          (last.op = "init_session" /\ Succeeded)
    /\ is_initialized =>
          /\ SERVICE_INFO \in ServiceInfoTexts
          /\ CERT_INFO_HASH \in CertInfoHashTexts
          /\ CAPTCHA_VERSION \in CaptchaVersionTexts \cup {""}
          /\ AUTH_TYPE \in AuthTypes

\* init_session succeeds right after an init_session that failed with the
\* session token already stored
C20_Witness ==
    /\ last.op = "init_session"
    /\ last.after = "raise"
    /\ ~last.before.is_initialized
    /\ last.before.SERVICE_INFO # Absent
    /\ last.before.AUTH_TYPE = ""
    /\ Succeeded
    /\ is_initialized

\* C21: no call takes the initialized flag or the verification-sent flag from
\* true back to false, the verification-sent flag is never true while the
\* initialized flag is false, and on an initialized session no call changes
\* the method, the session token or the cert token.
C21_StateMovesForward ==
    /\ last.before.is_initialized => is_initialized
    /\ last.before.is_verify_sent => is_verify_sent
    /\ is_verify_sent => is_initialized
    /\ last.before.is_initialized =>
          /\ AUTH_TYPE = last.before.AUTH_TYPE
          /\ SERVICE_INFO = last.before.SERVICE_INFO
          /\ CERT_INFO_HASH = last.before.CERT_INFO_HASH

\* the fields of the result page the recovery reads
ResultFields == {"NICE_NAME", "NICE_GENDER", "NICE_BIRTHEDATE", "NICE_MOBILENO"}

\* C22: a push or QR check whose poll is answered "0000" then issues the
\* confirm POST of the session's method (push or qr), the result POST and a GET
\* of the landing page init_session fetched for this session, with the query
\* string of the result page; it stops at the first that fails, a missing query
\* string or a missing field of the result page raises ParseError naming it,
\* and Verification Data is returned only when all four fields were found.
C22_RecoveryOrder ==
    (last.op \in PollOps /\ GotObject /\ last.seen.json.code = "0000") =>
        LET n == Len(last.reqs)
            action == IF last.before.AUTH_TYPE = "app_push" THEN "push" ELSE "qr"
            missing == {f \in ResultFields : last.seen.page[f] = {}}
        IN /\ last.before.AUTH_TYPE \in {"app_push", "app_qr"}
           /\ n \in 2..4
           /\ last.reqs[1] = Req("POST", URL_POLL, "")
           /\ last.reqs[2] = Req("POST", URL_CONFIRM, action)
           /\ n >= 3 => last.reqs[3] = Req("POST", URL_RESULT, "")
           /\ n = 4 =>
                 /\ last.reqs[4].method = "GET"
                 /\ last.reqs[4].url = landing_url
                 /\ last.reqs[4].arg # ""
           /\ (n = 3 /\ last.ret.kind # "NetworkError") =>
                 last.ret = ParseError("queryString", 2)
           /\ (n = 4 /\ last.ret.kind # "NetworkError" /\ missing # {}) =>
                 /\ last.ret.kind = "ParseError"
                 /\ last.ret.message \in missing
                 /\ last.ret.data = NoData
           /\ Succeeded => (n = 4 /\ missing = {})

\* C23: the Verification Data a call returns, from check_sms_verification as
\* from the push and QR checks, has gender "1" or "2", a phone number of digits
\* only and the carrier the session was constructed with.
C23_ReturnedDataNormalized ==
    last.ret.data.kind = "VerificationData" =>
        LET v == TheOne(last.ret.data.vd)
        IN /\ v.gender \in {"1", "2"}
           /\ IsDigit(v.phone_number)
           /\ v.mobile_carrier = cell_corp


====
